---- MODULE Spec2Model ----
(***************************************************************************)
(* A model of rtcom.py: the GPS poller thread (gps_updater) with its       *)
(* two-provider adapter (get_current_gps), the lock-guarded cache          *)
(* current_gps read by /api/current_gps, the command dispatcher            *)
(* /api/send_lxmf_command writing the mailbox file rtcom_command.txt, the  *)
(* point-log reader get_logged_points behind /api/logged_points, and the   *)
(* map export /api/export_map.  Each group of handlers has a specification *)
(* of its own over the same variables.                                     *)
(*                                                                         *)
(* Python values are tagged records: None is [t |-> "null"], a number is   *)
(* [t |-> "num", n |-> ...], a string is [t |-> "str", s |-> ...], a dict  *)
(* is [t |-> "dict", d |-> ...]; a key a dict does not hold is recorded as *)
(* [t |-> "missing"].  Coordinates are integers in units of 0.0001 degree, *)
(* so the source's literal 0.001 is 10.  Text written to a file is a       *)
(* sequence of one-character strings.                                      *)
(***************************************************************************)
EXTENDS Integers, Sequences, FiniteSets, TLC

\* ------------------------------------------------------------------ bounds
MaxTicks == 2

NumReaders == 2

NumHandlers == 2

\* --------------------------------------------------------- Python values
Null == [t |-> "null"]

Missing == [t |-> "missing"]

Num(n) == [t |-> "num", n |-> n]

Str(s) == [t |-> "str", s |-> s]

JDict(d) == [t |-> "dict", d |-> d]

JList == [t |-> "list"]

\* dict.get(key, default): the default when the key is absent
Get(d, k, default) == IF d[k] = Missing THEN default ELSE d[k]

\* key in dict
Has(d, k) == d[k] # Missing

\* Python truthiness of None, numbers, strings and (non-empty) dicts
Truthy(v) ==
    CASE v.t = "null" -> FALSE
      [] v.t = "missing" -> FALSE
      [] v.t = "num" -> v.n # 0
      [] v.t = "str" -> v.s # ""
      [] v.t = "dict" -> TRUE
      [] OTHER -> FALSE

Abs(n) == IF n < 0 THEN -n ELSE n

\* ------------------------------------------------- provider output samples
\* 0.001 degree in units of 0.0001 degree
Epsilon == 10

Reading(lat, lon, acc, spd, alt, brg, prov) ==
    [latitude |-> lat, longitude |-> lon, accuracy |-> acc, speed |-> spd,
     altitude |-> alt, bearing |-> brg, provider |-> prov]

ReadingA == Reading(Num(451234), Num(90000), Num(5), Num(1), Num(100), Num(90), Str("gps"))

ReadingB == Reading(Num(-120000), Num(-770000), Num(20), Num(3), Num(30), Num(180), Str("network"))

\* only the coordinates, latitude below epsilon
ReadingMin == Reading(Num(5), Num(100000), Missing, Missing, Missing, Missing, Missing)

\* on the equator: latitude exactly 0, longitude 10 degrees
ReadingEquator == Reading(Num(0), Num(100000), Missing, Missing, Missing, Missing, Missing)

ReadingNullIsland == Reading(Num(0), Num(0), Num(5), Num(0), Num(0), Missing, Str("gps"))

\* both coordinates non-zero, neither above epsilon
ReadingNearZero == Reading(Num(10), Num(-10), Missing, Missing, Missing, Missing, Missing)

ReadingNoLon == Reading(Num(451234), Missing, Num(5), Missing, Missing, Missing, Str("gps"))

ReadingNullLat == Reading(Null, Num(90000), Num(5), Missing, Missing, Missing, Str("gps"))

\* valid coordinates, the provider key present with the JSON value null
ReadingNullProvider ==
    Reading(Num(451234), Num(90000), Num(5), Missing, Missing, Missing, Null)

Payloads ==
    {ReadingA, ReadingB, ReadingMin, ReadingEquator, ReadingNullIsland,
     ReadingNearZero, ReadingNoLon, ReadingNullLat}

\* what subprocess.run(['termux-location', ...]) can do: fail to launch the
\* process, time out, or complete with an exit code and a stdout
Stdouts ==
    {[t |-> "empty"], [t |-> "garbage"], [t |-> "json", v |-> Num(7)],
     [t |-> "json", v |-> JList]}
      \cup {[t |-> "json", v |-> JDict(p)] : p \in Payloads}

Outcomes ==
    {[kind |-> "launch_fail", rc |-> 0, stdout |-> [t |-> "empty"]],
     [kind |-> "timeout", rc |-> 0, stdout |-> [t |-> "empty"]],
     [kind |-> "exit", rc |-> 1, stdout |-> [t |-> "empty"]]}
      \cup {[kind |-> "exit", rc |-> 0, stdout |-> s] : s \in Stdouts}

\* ------------------------------------------------------ get_current_gps
\* the test of line 78 (and 95): lat and lon and (abs(lat) > 0.001 or abs(lon) > 0.001)
ValidCoords(lat, lon) ==
    /\ Truthy(lat)
    /\ Truthy(lon)
    /\ (Abs(lat.n) > Epsilon \/ Abs(lon.n) > Epsilon)

Returned(data) == [k |-> "return", data |-> data, exc |-> ""]

FallThrough == [k |-> "next", data |-> Null, exc |-> ""]

Raised(exc) == [k |-> "raise", data |-> Null, exc |-> exc]

\* one provider attempt: subprocess.run, the exit-code and stdout test,
\* json.loads, the key test and the coordinate test
TryProvider(o) ==
    IF o.kind = "launch_fail" THEN Raised("FileNotFoundError")
    ELSE IF o.kind = "timeout" THEN Raised("TimeoutExpired")
    ELSE IF ~(o.rc = 0 /\ o.stdout.t # "empty") THEN FallThrough
    ELSE IF o.stdout.t = "garbage" THEN Raised("JSONDecodeError")
    ELSE LET data == o.stdout.v IN
         IF data.t = "num" THEN Raised("TypeError")
         ELSE IF data.t # "dict" THEN FallThrough
         ELSE IF ~(Has(data.d, "latitude") /\ Has(data.d, "longitude")) THEN FallThrough
         ELSE LET lat == Get(data.d, "latitude", Null)
                  lon == Get(data.d, "longitude", Null)
              IN IF ValidCoords(lat, lon) THEN Returned(data) ELSE FallThrough

\* Catches of a handler written as except subprocess.TimeoutExpired
CatchesTimeoutOnly(exc) == exc = "TimeoutExpired"

\* except Exception (line 98): every exception a provider attempt raises is
\* a subclass of Exception
Catches(exc) ==
    exc \in {"FileNotFoundError", "TimeoutExpired", "JSONDecodeError", "TypeError"}

\* ---------------------------------------------------------- the cache
InitialGps ==
    [latitude |-> Null, longitude |-> Null, accuracy |-> Null, speed |-> Null,
     altitude |-> Null, bearing |-> Null, provider |-> Null, timestamp |-> Null,
     available |-> FALSE]

\* datetime.now().isoformat() at clock value now
Timestamp(now) == [t |-> "time", n |-> now]

\* NewGps with a copy-paste slip: altitude read from the accuracy key
NewGpsCopyPaste(d, now) ==
    [latitude |-> Get(d, "latitude", Null),
     longitude |-> Get(d, "longitude", Null),
     accuracy |-> Get(d, "accuracy", Num(0)),
     speed |-> Get(d, "speed", Num(0)),
     altitude |-> Get(d, "accuracy", Num(0)),
     bearing |-> Get(d, "bearing", Null),
     provider |-> Get(d, "provider", Str("unknown")),
     timestamp |-> Timestamp(now),
     available |-> TRUE]

\* the dict built at lines 115-125
NewGps(d, now) ==
    [latitude |-> Get(d, "latitude", Null),
     longitude |-> Get(d, "longitude", Null),
     accuracy |-> Get(d, "accuracy", Num(0)),
     speed |-> Get(d, "speed", Num(0)),
     altitude |-> Get(d, "altitude", Num(0)),
     bearing |-> Get(d, "bearing", Null),
     provider |-> Get(d, "provider", Str("unknown")),
     timestamp |-> Timestamp(now),
     available |-> TRUE]

\* MarkUnavailable that also drops the reading
MarkUnavailableCleared(cur) == InitialGps

\* current_gps['available'] = False (line 127)
MarkUnavailable(cur) == [cur EXCEPT !.available = FALSE]

\* WriteCache with the new dict merged into the old one, longitude left out
WriteCacheKeepLon(cur, data, now) ==
    IF Truthy(data)
    THEN [NewGps(data.d, now) EXCEPT !.longitude = cur.longitude]
    ELSE MarkUnavailable(cur)

\* the body of `with gps_lock:` (lines 114-127)
WriteCache(cur, data, now) ==
    IF Truthy(data) THEN NewGps(data.d, now) ELSE MarkUnavailable(cur)

\* ------------------------------------------------- send_lxmf_command
\* a string held character by character (what an f-string produces)
Text(cs) == [t |-> "text", cs |-> cs]

DigitChars == <<"0", "1", "2", "3", "4", "5", "6", "7", "8", "9">>

\* str(n) for an integer
RECURSIVE IntToStr(_)
IntToStr(n) ==
    IF n < 0 THEN <<"-">> \o IntToStr(-n)
    ELSE IF n < 10 THEN <<DigitChars[n + 1]>>
    ELSE IntToStr(n \div 10) \o <<DigitChars[(n % 10) + 1]>>

\* "{v}" inside an f-string
Format(v) ==
    CASE v.t = "num" -> IntToStr(v.n)
      [] v.t = "text" -> v.cs
      [] OTHER -> <<"N", "o", "n", "e">>

TruthyField(v) == IF v.t = "text" THEN v.cs # <<>> ELSE Truthy(v)

\* ping_count and ping_delay defaults (lines 928-929)
DefaultPingCount == 10

DefaultPingDelay == 5

Body(ci, cmd, pc, pd) ==
    [kind |-> "json",
     d |-> [contact_index |-> ci, command |-> cmd, ping_count |-> pc, ping_delay |-> pd]]

\* a request whose body is not JSON: request.get_json() raises
ReqNotJson == [kind |-> "notjson", d |-> [contact_index |-> Missing, command |-> Missing,
                                         ping_count |-> Missing, ping_delay |-> Missing]]

ReqRt3 == Body(Num(3), Str("rt"), Num(10), Num(5))

ReqRs3 == Body(Num(3), Str("rs"), Missing, Missing)

ReqRtDefaults == Body(Num(3), Str("rt"), Missing, Missing)

\* the page's own request: input values are strings
ReqRtText == Body(Text(<<"0">>), Str("rt"), Text(<<"1", "0">>), Text(<<"5">>))

ReqRt0 == Body(Num(0), Str("rt"), Num(10), Num(5))

ReqStart3 == Body(Num(3), Str("start"), Num(10), Num(5))

ReqStop3 == Body(Num(3), Str("stop"), Missing, Missing)

ReqNoContact == Body(Missing, Str("rt"), Num(10), Num(5))

ReqNoCommand == Body(Num(3), Missing, Num(10), Num(5))

Requests ==
    {ReqNotJson, ReqRt3, ReqRs3, ReqRtDefaults, ReqRtText, ReqRt0,
     ReqStart3, ReqStop3, ReqNoContact, ReqNoCommand}

NoRequest == [ReqNotJson EXCEPT !.kind = "none"]

Success(msg) == [success |-> TRUE, message |-> msg, error |-> ""]

Failure(err) == [success |-> FALSE, message |-> <<>>, error |-> err]

NoResponse == [t |-> "none"]

\* MissingFields that tests the command only
MissingFieldsCommandOnly(contact_index, command) == ~TruthyField(command)

\* the test of line 922
MissingFields(contact_index, command) ==
    ~TruthyField(contact_index) \/ ~TruthyField(command)

\* StartMessage with the two ping parameters in the wrong order
StartMessageSwapped(contact_index, ping_count, ping_delay) ==
    <<"s", " ">> \o Format(contact_index) \o <<" ", "r", "t", " ">>
        \o Format(ping_delay) \o <<" ">> \o Format(ping_count)

\* the f-strings of lines 930 and 933
StartMessage(contact_index, ping_count, ping_delay) ==
    <<"s", " ">> \o Format(contact_index) \o <<" ", "r", "t", " ">>
        \o Format(ping_count) \o <<" ">> \o Format(ping_delay)

StopMessage(contact_index) ==
    <<"s", " ">> \o Format(contact_index) \o <<" ", "r", "s">>

\* Validate with the last branch written as else instead of elif/else:
\* every command that is not rt is taken as rs
ValidateElseStop(q) ==
    IF q.kind # "json" THEN [resp |-> Failure("BadRequest"), message |-> <<>>]
    ELSE LET contact_index == Get(q.d, "contact_index", Null)
             command == Get(q.d, "command", Null)
         IN IF MissingFields(contact_index, command)
            THEN [resp |-> Failure("Missing required fields"), message |-> <<>>]
            ELSE IF command = Str("rt")
            THEN [resp |-> NoResponse,
                  message |-> StartMessage(contact_index,
                                           Get(q.d, "ping_count", Num(DefaultPingCount)),
                                           Get(q.d, "ping_delay", Num(DefaultPingDelay)))]
            ELSE [resp |-> NoResponse, message |-> StopMessage(contact_index)]

\* Validate reading the ping parameters with data.get(key), without the
\* defaults of lines 928-929
ValidateNoDefaults(q) ==
    IF q.kind # "json" THEN [resp |-> Failure("BadRequest"), message |-> <<>>]
    ELSE LET contact_index == Get(q.d, "contact_index", Null)
             command == Get(q.d, "command", Null)
         IN IF MissingFields(contact_index, command)
            THEN [resp |-> Failure("Missing required fields"), message |-> <<>>]
            ELSE IF command = Str("rt")
            THEN [resp |-> NoResponse,
                  message |-> StartMessage(contact_index,
                                           Get(q.d, "ping_count", Null),
                                           Get(q.d, "ping_delay", Null))]
            ELSE IF command = Str("rs")
            THEN [resp |-> NoResponse, message |-> StopMessage(contact_index)]
            ELSE [resp |-> Failure("Unknown command"), message |-> <<>>]

\* lines 918-935: the response when the request ends here, or the message
Validate(q) ==
    IF q.kind # "json" THEN [resp |-> Failure("BadRequest"), message |-> <<>>]
    ELSE LET contact_index == Get(q.d, "contact_index", Null)
             command == Get(q.d, "command", Null)
         IN IF MissingFields(contact_index, command)
            THEN [resp |-> Failure("Missing required fields"), message |-> <<>>]
            ELSE IF command = Str("rt")
            THEN [resp |-> NoResponse,
                  message |-> StartMessage(contact_index,
                                           Get(q.d, "ping_count", Num(DefaultPingCount)),
                                           Get(q.d, "ping_delay", Num(DefaultPingDelay)))]
            ELSE IF command = Str("rs")
            THEN [resp |-> NoResponse, message |-> StopMessage(contact_index)]
            ELSE [resp |-> Failure("Unknown command"), message |-> <<>>]

\* the mailbox file rtcom_command.txt
Absent == [exists |-> FALSE, content |-> <<>>]

File(content) == [exists |-> TRUE, content |-> content]

\* OpenTruncate in a mode that keeps the content ('r+')
OpenKeep(file) == File(file.content)

\* open(command_file, 'w'): create or truncate
OpenTruncate(file) == File(<<>>)

\* the buffered data reaches the file at the handle's offset 0 on close
WriteAtStart(file, data) ==
    File(data \o SubSeq(file.content, Len(data) + 1, Len(file.content)))

\* ---------------------------------------------------- get_logged_points
\* a JSON array
PList(items) == [t |-> "list", items |-> items]

EmptyList == PList(<<>>)

\* two logged points as the external logger stores them
PointA ==
    JDict([latitude |-> Num(451234), longitude |-> Num(90000), rssi |-> Num(-90)])

PointB ==
    JDict([latitude |-> Num(451240), longitude |-> Num(90010), rssi |-> Null])

\* a top-level object with the given value under 'points'
Doc(p) == JDict([points |-> p])

Docs ==
    {Doc(PList(<<PointA>>)), Doc(PList(<<PointA, PointB>>)),
     Doc(PList(<<PointB, PointA>>)), Doc(EmptyList), Doc(Missing), Doc(Null),
     PList(<<PointA>>), Num(7)}

\* what the file can hold: nothing, bytes that are no JSON, the complete
\* text of a document, or that text cut short by a writer still at work
Texts ==
    {[t |-> "empty"], [t |-> "garbage"],
     [t |-> "cut", v |-> Doc(PList(<<PointA, PointB>>))]}
      \cup {[t |-> "json", v |-> d] : d \in Docs}

NoFile == [kind |-> "absent", text |-> [t |-> "empty"]]

\* the file exists and open() is refused
Unreadable == [kind |-> "unreadable", text |-> [t |-> "empty"]]

JsonFiles == {NoFile, Unreadable} \cup {[kind |-> "file", text |-> x] : x \in Texts}

\* json.load: the document of a complete JSON text, JSONDecodeError otherwise
JsonLoad(text) ==
    IF text.t = "json" THEN Returned(text.v) ELSE Raised("JSONDecodeError")

\* GetPoints returning the newest point first
GetPointsNewestFirst(data) ==
    LET p == Get(data.d, "points", EmptyList)
    IN IF p.t = "list"
       THEN PList([i \in 1..Len(p.items) |-> p.items[Len(p.items) + 1 - i]])
       ELSE p

\* data.get('points', []) (line 140)
GetPoints(data) == Get(data.d, "points", EmptyList)

\* lines 138-140: open, json.load, data.get; only a dict has .get
ReadPoints(file) ==
    IF file.kind = "absent" THEN Raised("FileNotFoundError")
    ELSE IF file.kind = "unreadable" THEN Raised("PermissionError")
    ELSE LET r == JsonLoad(file.text) IN
         IF r.k = "raise" THEN r
         ELSE IF r.data.t # "dict" THEN Raised("AttributeError")
         ELSE Returned(GetPoints(r.data))

\* CatchesLog of a handler written as except OSError
CatchesLogOSError(exc) == exc \in {"FileNotFoundError", "PermissionError"}

\* except Exception (line 141)
CatchesLog(exc) ==
    exc \in {"FileNotFoundError", "PermissionError", "JSONDecodeError",
             "AttributeError"}

\* ------------------------------------------------------------ export_map
\* rangetest_<timestamp>.html for the seconds at which a request can run
FileNames == {"rangetest_1.html", "rangetest_2.html"}

NoName == ""

Exported(filename) == [success |-> TRUE, filename |-> filename, error |-> ""]

NotExported(err) == [success |-> FALSE, filename |-> NoName, error |-> err]

\* shutil.copy(HTML_FILE, dest_path): the source is opened first, then the
\* destination is created and filled; io_ok says whether the bytes get there
Copy(src_exists, dir_exists, io_ok) ==
    IF ~src_exists THEN [exc |-> "FileNotFoundError", dest |-> "untouched"]
    ELSE IF ~dir_exists THEN [exc |-> "FileNotFoundError", dest |-> "untouched"]
    ELSE IF ~io_ok THEN [exc |-> "OSError", dest |-> "partial"]
    ELSE [exc |-> "", dest |-> "complete"]

\* CatchesExport of a handler without the try of line 886
CatchesExportNothing(exc) == FALSE

\* except Exception (line 911)
CatchesExport(exc) == exc \in {"FileNotFoundError", "OSError"}

\* ------------------------------------------------------------- threads
PollerId == 0

Readers == 1..NumReaders

Handlers == 1..NumHandlers

Free == -1

\* CanAcquire of a lock that excludes nobody
CanAcquireAlways(lock) == TRUE

\* Lock.acquire succeeds only on a free lock
CanAcquire(lock) == lock = Free

NoSnapshot == [t |-> "none"]

PointReaders == 1..NumReaders

Exporters == 1..NumHandlers

VARIABLES
    termux,       \* is_termux(): does /data/data/com.termux exist
    serving,      \* main has reached app.run
    current_gps,  \* the global dict
    gps_lock,     \* holder of gps_lock, or Free
    p_pc,         \* position of the gps_updater thread
    attempts,     \* provider outcomes seen by the running get_current_gps call
    adapter_ret,  \* how the last get_current_gps call ended
    gps_data,     \* gps_updater's local gps_data
    ticks,        \* completed iterations of the while loop
    last_tick,    \* how the most recent completed iteration ended
    history,      \* the writes made so far: iteration, gps_data written, resulting cache
    r_pc,         \* position of each /api/current_gps handler
    snapshot,     \* what each handler serialized
    mailbox,      \* the file rtcom_command.txt
    d_pc,         \* position of each /api/send_lxmf_command handler
    req,          \* the request each handler is serving
    message,      \* each handler's local message
    resp,         \* the response each handler returned
    overlap,      \* handlers that held the mailbox open while another did
    json_file,    \* the file rangetest.json
    l_pc,         \* position of each /api/logged_points handler
    l_ret,        \* how each handler's get_logged_points call ended
    points,       \* each handler's local points
    download_dir, \* does /sdcard/Download exist
    html_file,    \* does rangetest.html exist
    downloads,    \* the files of /sdcard/Download: absent, partial or complete
    e_pc,         \* position of each /api/export_map handler
    e_name,       \* each handler's local filename
    e_ret,        \* how each handler's call ended
    e_resp        \* the response each handler returned

gpsVars ==
    <<termux, serving, current_gps, gps_lock, p_pc, attempts, adapter_ret,
      gps_data, ticks, last_tick, history, r_pc, snapshot>>

dispVars == <<mailbox, d_pc, req, message, resp, overlap>>

pointVars == <<json_file, l_pc, l_ret, points>>

exportVars == <<download_dir, html_file, downloads, e_pc, e_name, e_ret, e_resp>>

fileVars == <<pointVars, exportVars>>

vars == <<gpsVars, dispVars, fileVars>>

InitGps ==
    /\ termux \in BOOLEAN
    /\ serving = FALSE
    /\ current_gps = InitialGps
    /\ gps_lock = Free
    /\ p_pc = "notstarted"
    /\ attempts = <<>>
    /\ adapter_ret = "none"
    /\ gps_data = Null
    /\ ticks = 0
    /\ last_tick = "none"
    /\ history = {}
    /\ r_pc = [r \in Readers |-> "idle"]
    /\ snapshot = [r \in Readers |-> NoSnapshot]

\* Main without the platform test of line 1008
MainStartsAlways ==
    /\ ~serving
    /\ serving' = TRUE
    /\ p_pc' = "call"
    /\ UNCHANGED <<dispVars, fileVars>>
    /\ UNCHANGED <<termux, current_gps, gps_lock, attempts, adapter_ret, gps_data,
                   ticks, last_tick, history, r_pc, snapshot>>

\* main (lines 1008-1017): start the updater thread on Termux only, then serve
Main ==
    /\ ~serving
    /\ serving' = TRUE
    /\ p_pc' = IF termux THEN "call" ELSE "notstarted"
    /\ UNCHANGED <<dispVars, fileVars>>
    /\ UNCHANGED <<termux, current_gps, gps_lock, attempts, adapter_ret, gps_data,
                   ticks, last_tick, history, r_pc, snapshot>>

\* PollerCall of a loop whose with gps_lock encloses the adapter call
PollerCallLocked ==
    /\ p_pc = "call"
    /\ CanAcquire(gps_lock)
    /\ gps_lock' = PollerId
    /\ attempts' = <<>>
    /\ adapter_ret' = "running"
    /\ p_pc' = "gps"
    /\ UNCHANGED <<dispVars, fileVars>>
    /\ UNCHANGED <<termux, serving, current_gps, gps_data, ticks, last_tick,
                   history, r_pc, snapshot>>

\* gps_data = get_current_gps() is entered (line 111, lines 60-61)
PollerCall ==
    /\ p_pc = "call"
    /\ attempts' = <<>>
    /\ IF ~termux
       THEN /\ gps_data' = Null
            /\ adapter_ret' = "returned"
            /\ p_pc' = "acquire"
       ELSE /\ adapter_ret' = "running"
            /\ p_pc' = "gps"
            /\ UNCHANGED gps_data
    /\ UNCHANGED <<dispVars, fileVars>>
    /\ UNCHANGED <<termux, serving, current_gps, gps_lock, ticks, last_tick,
                   history, r_pc, snapshot>>

\* one provider attempt with outcome o, made at position at; a fall-through
\* of the first attempt leads to the second, of the second to return None
Attempt(at, o) ==
    /\ p_pc = at
    /\ attempts' = Append(attempts, o)
    /\ LET e == TryProvider(o) IN
       IF e.k = "return"
       THEN /\ gps_data' = e.data
            /\ adapter_ret' = "returned"
            /\ p_pc' = "acquire"
            /\ UNCHANGED <<ticks, last_tick>>
       ELSE IF e.k = "next" /\ at = "gps"
       THEN /\ p_pc' = "net"
            /\ UNCHANGED <<gps_data, adapter_ret, ticks, last_tick>>
       ELSE IF e.k = "next" \/ Catches(e.exc)
       THEN /\ gps_data' = Null
            /\ adapter_ret' = "returned"
            /\ p_pc' = "acquire"
            /\ UNCHANGED <<ticks, last_tick>>
       ELSE \* the exception leaves get_current_gps and reaches line 129
            /\ adapter_ret' = "raised"
            /\ last_tick' = "raised"
            /\ ticks' = ticks + 1
            /\ p_pc' = "sleep"
            /\ UNCHANGED gps_data
    /\ UNCHANGED <<dispVars, fileVars>>
    /\ UNCHANGED <<termux, serving, current_gps, gps_lock, history,
                   r_pc, snapshot>>

\* lines 65-79
GpsAttempt == \E o \in Outcomes : Attempt("gps", o)

\* lines 82-96
NetworkAttempt == \E o \in Outcomes : Attempt("net", o)

\* with gps_lock: (line 113)
PollerAcquire ==
    /\ p_pc = "acquire"
    /\ CanAcquire(gps_lock)
    /\ gps_lock' = PollerId
    /\ p_pc' = "write"
    /\ attempts' = <<>>
    /\ UNCHANGED <<dispVars, fileVars>>
    /\ UNCHANGED <<termux, serving, current_gps, adapter_ret, gps_data, ticks,
                   last_tick, history, r_pc, snapshot>>

\* lines 114-127
PollerWrite ==
    /\ p_pc = "write"
    /\ current_gps' = WriteCache(current_gps, gps_data, ticks + 1)
    /\ history' = history \cup {[tick |-> ticks + 1, data |-> gps_data, value |-> current_gps']}
    /\ last_tick' = IF Truthy(gps_data) THEN "reading" ELSE "unavailable"
    /\ p_pc' = "release"
    /\ UNCHANGED <<dispVars, fileVars>>
    /\ UNCHANGED <<termux, serving, gps_lock, attempts, adapter_ret, gps_data,
                   ticks, r_pc, snapshot>>

\* PollerRaise without the except clause of line 129: the exception ends the
\* thread
PollerRaiseUncaught ==
    /\ p_pc = "write"
    /\ last_tick' = "raised"
    /\ gps_lock' = Free
    /\ p_pc' = "dead"
    /\ UNCHANGED <<dispVars, fileVars>>
    /\ UNCHANGED <<termux, serving, current_gps, attempts, adapter_ret,
                   gps_data, ticks, history, r_pc, snapshot>>

\* PollerRaise with acquire() and release() calls in place of the with
\* statement: the exception skips the release and line 129 catches it
PollerRaiseKeepsLock ==
    /\ p_pc = "write"
    /\ last_tick' = "raised"
    /\ ticks' = ticks + 1
    /\ p_pc' = "sleep"
    /\ UNCHANGED <<dispVars, fileVars>>
    /\ UNCHANGED <<termux, serving, current_gps, gps_lock, attempts, adapter_ret,
                   gps_data, history, r_pc, snapshot>>

\* an exception inside the with body, before the cache is touched: the with
\* statement still releases the lock, then line 129 catches it
PollerRaise ==
    /\ p_pc = "write"
    /\ last_tick' = "raised"
    /\ p_pc' = "release"
    /\ UNCHANGED <<dispVars, fileVars>>
    /\ UNCHANGED <<termux, serving, current_gps, gps_lock, attempts, adapter_ret,
                   gps_data, ticks, history, r_pc, snapshot>>

\* leaving the with block
PollerRelease ==
    /\ p_pc = "release"
    /\ gps_lock' = Free
    /\ ticks' = ticks + 1
    /\ p_pc' = "sleep"
    /\ UNCHANGED <<dispVars, fileVars>>
    /\ UNCHANGED <<termux, serving, current_gps, attempts, adapter_ret, gps_data,
                   last_tick, history, r_pc, snapshot>>

\* time.sleep(GPS_UPDATE_INTERVAL), then the next iteration (lines 132, 109)
PollerSleep ==
    /\ p_pc = "sleep"
    /\ ticks < MaxTicks
    /\ p_pc' = "call"
    /\ UNCHANGED <<dispVars, fileVars>>
    /\ UNCHANGED <<termux, serving, current_gps, gps_lock, attempts, adapter_ret,
                   gps_data, ticks, last_tick, history, r_pc, snapshot>>

\* ------------------------------------------------ /api/current_gps handler
ReaderRequest(r) ==
    /\ serving
    /\ r_pc[r] = "idle"
    /\ r_pc' = [r_pc EXCEPT ![r] = "waiting"]
    /\ UNCHANGED <<dispVars, fileVars>>
    /\ UNCHANGED <<termux, serving, current_gps, gps_lock, p_pc, attempts,
                   adapter_ret, gps_data, ticks, last_tick, history,
                   snapshot>>

\* with gps_lock: (line 867)
ReaderAcquire(r) ==
    /\ r_pc[r] = "waiting"
    /\ CanAcquire(gps_lock)
    /\ gps_lock' = r
    /\ r_pc' = [r_pc EXCEPT ![r] = "locked"]
    /\ UNCHANGED <<dispVars, fileVars>>
    /\ UNCHANGED <<termux, serving, current_gps, p_pc, attempts, adapter_ret,
                   gps_data, ticks, last_tick, history, snapshot>>

\* ReaderSerialize of a handler that flags the reading it hands out as
\* consumed
ReaderSerializeFlags(r) ==
    /\ r_pc[r] = "locked"
    /\ snapshot' = [snapshot EXCEPT ![r] = current_gps]
    /\ current_gps' = [current_gps EXCEPT !.available = FALSE]
    /\ r_pc' = [r_pc EXCEPT ![r] = "serialized"]
    /\ UNCHANGED <<dispVars, fileVars>>
    /\ UNCHANGED <<termux, serving, gps_lock, p_pc, attempts,
                   adapter_ret, gps_data, ticks, last_tick, history>>

\* jsonify(current_gps) (line 868)
ReaderSerialize(r) ==
    /\ r_pc[r] = "locked"
    /\ snapshot' = [snapshot EXCEPT ![r] = current_gps]
    /\ r_pc' = [r_pc EXCEPT ![r] = "serialized"]
    /\ UNCHANGED <<dispVars, fileVars>>
    /\ UNCHANGED <<termux, serving, current_gps, gps_lock, p_pc, attempts,
                   adapter_ret, gps_data, ticks, last_tick, history>>

\* return: the with block is left and the response goes out
ReaderReturn(r) ==
    /\ r_pc[r] = "serialized"
    /\ gps_lock' = Free
    /\ r_pc' = [r_pc EXCEPT ![r] = "done"]
    /\ UNCHANGED <<dispVars, fileVars>>
    /\ UNCHANGED <<termux, serving, current_gps, p_pc, attempts, adapter_ret,
                   gps_data, ticks, last_tick, history, snapshot>>

\* the worker thread takes the next request
ReaderDone(r) ==
    /\ r_pc[r] = "done"
    /\ r_pc' = [r_pc EXCEPT ![r] = "idle"]
    /\ snapshot' = [snapshot EXCEPT ![r] = NoSnapshot]
    /\ UNCHANGED <<dispVars, fileVars>>
    /\ UNCHANGED <<termux, serving, current_gps, gps_lock, p_pc, attempts,
                   adapter_ret, gps_data, ticks, last_tick, history>>

NextGps ==
    \/ Main
    \/ PollerCall
    \/ GpsAttempt
    \/ NetworkAttempt
    \/ PollerAcquire
    \/ PollerWrite
    \/ PollerRaise
    \/ PollerRelease
    \/ PollerSleep
    \/ \E r \in Readers : ReaderRequest(r)
    \/ \E r \in Readers : ReaderAcquire(r)
    \/ \E r \in Readers : ReaderSerialize(r)
    \/ \E r \in Readers : ReaderReturn(r)
    \/ \E r \in Readers : ReaderDone(r)

\* --------------------------------------- /api/send_lxmf_command handler
InitDispatch ==
    /\ mailbox \in {Absent, File(<<"s", " ", "9", " ", "r", "s", "\n">>)}
    /\ d_pc = [h \in Handlers |-> "idle"]
    /\ req = [h \in Handlers |-> NoRequest]
    /\ message = [h \in Handlers |-> <<>>]
    /\ resp = [h \in Handlers |-> NoResponse]
    /\ overlap = {}

DispatchRequest(h) ==
    /\ serving
    /\ d_pc[h] = "idle"
    /\ \E q \in Requests : req' = [req EXCEPT ![h] = q]
    /\ d_pc' = [d_pc EXCEPT ![h] = "validate"]
    /\ UNCHANGED <<mailbox, message, resp, overlap>>
    /\ UNCHANGED <<gpsVars, fileVars>>

\* lines 918-935
DispatchValidate(h) ==
    /\ d_pc[h] = "validate"
    /\ LET v == Validate(req[h]) IN
       /\ message' = [message EXCEPT ![h] = v.message]
       /\ resp' = [resp EXCEPT ![h] = v.resp]
       /\ d_pc' = [d_pc EXCEPT ![h] = IF v.resp = NoResponse THEN "open" ELSE "done"]
    /\ UNCHANGED <<mailbox, req, overlap>>
    /\ UNCHANGED <<gpsVars, fileVars>>

\* the handlers that hold the mailbox open: between open and close
HasOpen == {o \in Handlers : d_pc[o] = "write"}

\* DispatchOpen of a handler that guards the mailbox with gps_lock
DispatchOpenLocked(h) ==
    /\ d_pc[h] = "open"
    /\ CanAcquire(gps_lock)
    /\ gps_lock' = h
    /\ mailbox' = OpenTruncate(mailbox)
    /\ d_pc' = [d_pc EXCEPT ![h] = "write"]
    /\ overlap' = IF HasOpen = {} THEN overlap
                  ELSE overlap \cup HasOpen \cup {h}
    /\ UNCHANGED <<req, message, resp>>
    /\ UNCHANGED fileVars
    /\ UNCHANGED <<termux, serving, current_gps, p_pc, attempts, adapter_ret,
                   gps_data, ticks, last_tick, history, r_pc, snapshot>>

\* open(command_file, 'w') (line 941); an OSError goes to line 957
DispatchOpen(h) ==
    /\ d_pc[h] = "open"
    /\ \E ok \in BOOLEAN :
         IF ok
         THEN /\ mailbox' = OpenTruncate(mailbox)
              /\ d_pc' = [d_pc EXCEPT ![h] = "write"]
              /\ overlap' = IF HasOpen = {} THEN overlap
                            ELSE overlap \cup HasOpen \cup {h}
              /\ UNCHANGED resp
         ELSE /\ resp' = [resp EXCEPT ![h] = Failure("OSError")]
              /\ d_pc' = [d_pc EXCEPT ![h] = "done"]
              /\ UNCHANGED <<mailbox, overlap>>
    /\ UNCHANGED <<req, message>>
    /\ UNCHANGED <<gpsVars, fileVars>>

\* DispatchWrite of a handler that ignores a failed write and goes on to
\* the success response
DispatchWriteSwallows(h) ==
    /\ d_pc[h] = "write"
    /\ \E ok \in BOOLEAN :
         mailbox' = IF ok THEN WriteAtStart(mailbox, message[h] \o <<"\n">>)
                    ELSE mailbox
    /\ d_pc' = [d_pc EXCEPT ![h] = "sleep"]
    /\ UNCHANGED <<req, message, resp, overlap>>
    /\ UNCHANGED <<gpsVars, fileVars>>

\* f.write(message + '\n') and the close that ends the with block (line 942)
DispatchWrite(h) ==
    /\ d_pc[h] = "write"
    /\ \E ok \in BOOLEAN :
         IF ok
         THEN /\ mailbox' = WriteAtStart(mailbox, message[h] \o <<"\n">>)
              /\ d_pc' = [d_pc EXCEPT ![h] = "sleep"]
              /\ UNCHANGED resp
         ELSE /\ resp' = [resp EXCEPT ![h] = Failure("OSError")]
              /\ d_pc' = [d_pc EXCEPT ![h] = "done"]
              /\ UNCHANGED mailbox
    /\ UNCHANGED <<req, message, overlap>>
    /\ UNCHANGED <<gpsVars, fileVars>>

\* DispatchReturn of a handler that waits until the bridge has cleared the
\* file before it answers
DispatchReturnWaits(h) ==
    /\ d_pc[h] = "sleep"
    /\ mailbox.content = <<>>
    /\ resp' = [resp EXCEPT ![h] = Success(message[h])]
    /\ d_pc' = [d_pc EXCEPT ![h] = "done"]
    /\ UNCHANGED <<mailbox, req, message, overlap>>
    /\ UNCHANGED <<gpsVars, fileVars>>

\* time.sleep(0.1) and the success response (lines 946-955)
DispatchReturn(h) ==
    /\ d_pc[h] = "sleep"
    /\ resp' = [resp EXCEPT ![h] = Success(message[h])]
    /\ d_pc' = [d_pc EXCEPT ![h] = "done"]
    /\ UNCHANGED <<mailbox, req, message, overlap>>
    /\ UNCHANGED <<gpsVars, fileVars>>

\* the worker thread takes the next request
DispatchDone(h) ==
    /\ d_pc[h] = "done"
    /\ d_pc' = [d_pc EXCEPT ![h] = "idle"]
    /\ req' = [req EXCEPT ![h] = NoRequest]
    /\ message' = [message EXCEPT ![h] = <<>>]
    /\ resp' = [resp EXCEPT ![h] = NoResponse]
    /\ overlap' = overlap \ {h}
    /\ UNCHANGED mailbox
    /\ UNCHANGED <<gpsVars, fileVars>>

\* the bridge plugin, another process: it reads a command it finds in the
\* file and clears the file (lines 948-949)
BridgeClear ==
    /\ mailbox.exists
    /\ mailbox.content # <<>>
    /\ mailbox' = File(<<>>)
    /\ UNCHANGED <<d_pc, req, message, resp, overlap>>
    /\ UNCHANGED <<gpsVars, fileVars>>

NextDispatch ==
    \/ Main
    \/ BridgeClear
    \/ \E h \in Handlers : DispatchRequest(h)
    \/ \E h \in Handlers : DispatchValidate(h)
    \/ \E h \in Handlers : DispatchOpen(h)
    \/ \E h \in Handlers : DispatchWrite(h)
    \/ \E h \in Handlers : DispatchReturn(h)
    \/ \E h \in Handlers : DispatchDone(h)

\* one request for each way through the handler: rt, rs, refused
FewRequests == {ReqRt3, ReqRs3, ReqNoContact}

DispatchRequestFew(h) ==
    /\ serving
    /\ d_pc[h] = "idle"
    /\ \E q \in FewRequests : req' = [req EXCEPT ![h] = q]
    /\ d_pc' = [d_pc EXCEPT ![h] = "validate"]
    /\ UNCHANGED <<mailbox, message, resp, overlap>>
    /\ UNCHANGED <<gpsVars, fileVars>>

NextDispatchFair ==
    \/ Main
    \/ BridgeClear
    \/ \E h \in Handlers : DispatchRequestFew(h)
    \/ \E h \in Handlers : DispatchValidate(h)
    \/ \E h \in Handlers : DispatchOpen(h)
    \/ \E h \in Handlers : DispatchWrite(h)
    \/ \E h \in Handlers : DispatchReturn(h)
    \/ \E h \in Handlers : DispatchDone(h)

\* a handler thread that can take a step eventually takes it; nothing is
\* assumed of the bridge or of the arrival of requests
FairHandlers ==
    \A h \in Handlers :
        /\ WF_vars(DispatchValidate(h))
        /\ WF_vars(DispatchOpen(h))
        /\ WF_vars(DispatchWrite(h))
        /\ WF_vars(DispatchReturn(h))

\* ---------------------------------------------- /api/logged_points handler
InitPoints ==
    /\ json_file = NoFile
    /\ l_pc = [l \in PointReaders |-> "idle"]
    /\ l_ret = [l \in PointReaders |-> "none"]
    /\ points = [l \in PointReaders |-> Null]

\* the external logger (or anyone else) creates, rewrites or removes the file
LoggerWrites ==
    /\ \E f \in JsonFiles \ {json_file} : json_file' = f
    /\ UNCHANGED <<l_pc, l_ret, points>>
    /\ UNCHANGED <<gpsVars, dispVars, exportVars>>

\* points = get_logged_points() is entered (line 873)
LogRequest(l) ==
    /\ serving
    /\ l_pc[l] = "idle"
    /\ l_pc' = [l_pc EXCEPT ![l] = "check"]
    /\ UNCHANGED <<json_file, l_ret, points>>
    /\ UNCHANGED <<gpsVars, dispVars, exportVars>>

\* if os.path.exists(JSON_FILE) (line 137), else return [] (line 144)
LogExists(l) ==
    /\ l_pc[l] = "check"
    /\ IF json_file.kind # "absent"
       THEN /\ l_pc' = [l_pc EXCEPT ![l] = "open"]
            /\ UNCHANGED <<l_ret, points>>
       ELSE /\ points' = [points EXCEPT ![l] = EmptyList]
            /\ l_ret' = [l_ret EXCEPT ![l] = "returned"]
            /\ l_pc' = [l_pc EXCEPT ![l] = "loaded"]
    /\ UNCHANGED json_file
    /\ UNCHANGED <<gpsVars, dispVars, exportVars>>

\* lines 138-144: read the file as it is now; a caught exception gives []
LogLoad(l) ==
    /\ l_pc[l] = "open"
    /\ LET r == ReadPoints(json_file) IN
       IF r.k = "return"
       THEN /\ points' = [points EXCEPT ![l] = r.data]
            /\ l_ret' = [l_ret EXCEPT ![l] = "returned"]
            /\ l_pc' = [l_pc EXCEPT ![l] = "loaded"]
       ELSE IF CatchesLog(r.exc)
       THEN /\ points' = [points EXCEPT ![l] = EmptyList]
            /\ l_ret' = [l_ret EXCEPT ![l] = "returned"]
            /\ l_pc' = [l_pc EXCEPT ![l] = "loaded"]
       ELSE /\ l_ret' = [l_ret EXCEPT ![l] = "raised"]
            /\ l_pc' = [l_pc EXCEPT ![l] = "done"]
            /\ UNCHANGED points
    /\ UNCHANGED json_file
    /\ UNCHANGED <<gpsVars, dispVars, exportVars>>

\* return jsonify({'points': points}) (line 874)
LogReturn(l) ==
    /\ l_pc[l] = "loaded"
    /\ l_pc' = [l_pc EXCEPT ![l] = "done"]
    /\ UNCHANGED <<json_file, l_ret, points>>
    /\ UNCHANGED <<gpsVars, dispVars, exportVars>>

\* the worker thread takes the next request
LogDone(l) ==
    /\ l_pc[l] = "done"
    /\ l_pc' = [l_pc EXCEPT ![l] = "idle"]
    /\ l_ret' = [l_ret EXCEPT ![l] = "none"]
    /\ points' = [points EXCEPT ![l] = Null]
    /\ UNCHANGED json_file
    /\ UNCHANGED <<gpsVars, dispVars, exportVars>>

NextPoints ==
    \/ Main
    \/ LoggerWrites
    \/ \E l \in PointReaders : LogRequest(l)
    \/ \E l \in PointReaders : LogExists(l)
    \/ \E l \in PointReaders : LogLoad(l)
    \/ \E l \in PointReaders : LogReturn(l)
    \/ \E l \in PointReaders : LogDone(l)

\* ------------------------------------------------- /api/export_map handler
InitExport ==
    /\ download_dir = FALSE
    /\ html_file = FALSE
    /\ downloads = [n \in FileNames |-> "absent"]
    /\ e_pc = [e \in Exporters |-> "idle"]
    /\ e_name = [e \in Exporters |-> NoName]
    /\ e_ret = [e \in Exporters |-> "none"]
    /\ e_resp = [e \in Exporters |-> NoResponse]

\* shared storage is mounted or unmounted
StorageChanges ==
    /\ download_dir' = ~download_dir
    /\ UNCHANGED <<html_file, downloads, e_pc, e_name, e_ret, e_resp>>
    /\ UNCHANGED <<gpsVars, dispVars, pointVars>>

\* the external logger writes the map, or the map is removed
MapChanges ==
    /\ html_file' = ~html_file
    /\ UNCHANGED <<download_dir, downloads, e_pc, e_name, e_ret, e_resp>>
    /\ UNCHANGED <<gpsVars, dispVars, pointVars>>

ExportRequest(e) ==
    /\ serving
    /\ e_pc[e] = "idle"
    /\ e_pc' = [e_pc EXCEPT ![e] = "platform"]
    /\ UNCHANGED <<download_dir, html_file, downloads, e_name, e_ret, e_resp>>
    /\ UNCHANGED <<gpsVars, dispVars, pointVars>>

\* the handler returns the failure response err
ExportFails(e, err) ==
    /\ e_resp' = [e_resp EXCEPT ![e] = NotExported(err)]
    /\ e_ret' = [e_ret EXCEPT ![e] = "returned"]
    /\ e_pc' = [e_pc EXCEPT ![e] = "done"]

\* if not is_termux() (lines 887-888)
ExportPlatform(e) ==
    /\ e_pc[e] = "platform"
    /\ IF ~termux
       THEN ExportFails(e, "Export only works on Termux/Android")
       ELSE /\ e_pc' = [e_pc EXCEPT ![e] = "dir"]
            /\ UNCHANGED <<e_ret, e_resp>>
    /\ UNCHANGED <<download_dir, html_file, downloads, e_name>>
    /\ UNCHANGED <<gpsVars, dispVars, pointVars>>

\* if not os.path.exists(download_dir) (lines 892-893)
ExportDir(e) ==
    /\ e_pc[e] = "dir"
    /\ IF ~download_dir
       THEN ExportFails(e, "/sdcard/Download not found")
       ELSE /\ e_pc' = [e_pc EXCEPT ![e] = "name"]
            /\ UNCHANGED <<e_ret, e_resp>>
    /\ UNCHANGED <<download_dir, html_file, downloads, e_name>>
    /\ UNCHANGED <<gpsVars, dispVars, pointVars>>

\* the timestamped filename (lines 896-898)
ExportName(e) ==
    /\ e_pc[e] = "name"
    /\ \E n \in FileNames : e_name' = [e_name EXCEPT ![e] = n]
    /\ e_pc' = [e_pc EXCEPT ![e] = "source"]
    /\ UNCHANGED <<download_dir, html_file, downloads, e_ret, e_resp>>
    /\ UNCHANGED <<gpsVars, dispVars, pointVars>>

\* if not os.path.exists(HTML_FILE) (lines 902-903)
ExportSource(e) ==
    /\ e_pc[e] = "source"
    /\ IF ~html_file
       THEN ExportFails(e, "No range test data to export")
       ELSE /\ e_pc' = [e_pc EXCEPT ![e] = "copy"]
            /\ UNCHANGED <<e_ret, e_resp>>
    /\ UNCHANGED <<download_dir, html_file, downloads, e_name>>
    /\ UNCHANGED <<gpsVars, dispVars, pointVars>>

\* shutil.copy (line 907); an exception goes to line 911
ExportCopy(e) ==
    /\ e_pc[e] = "copy"
    /\ \E io_ok \in BOOLEAN :
         LET c == Copy(html_file, download_dir, io_ok) IN
         /\ downloads' = IF c.dest = "untouched" THEN downloads
                         ELSE [downloads EXCEPT ![e_name[e]] = c.dest]
         /\ IF c.exc = ""
            THEN /\ e_pc' = [e_pc EXCEPT ![e] = "copied"]
                 /\ UNCHANGED <<e_ret, e_resp>>
            ELSE IF CatchesExport(c.exc)
            THEN ExportFails(e, c.exc)
            ELSE /\ e_ret' = [e_ret EXCEPT ![e] = "raised"]
                 /\ e_pc' = [e_pc EXCEPT ![e] = "done"]
                 /\ UNCHANGED e_resp
    /\ UNCHANGED <<download_dir, html_file, e_name>>
    /\ UNCHANGED <<gpsVars, dispVars, pointVars>>

\* the success response (line 909)
ExportReturn(e) ==
    /\ e_pc[e] = "copied"
    /\ e_resp' = [e_resp EXCEPT ![e] = Exported(e_name[e])]
    /\ e_ret' = [e_ret EXCEPT ![e] = "returned"]
    /\ e_pc' = [e_pc EXCEPT ![e] = "done"]
    /\ UNCHANGED <<download_dir, html_file, downloads, e_name>>
    /\ UNCHANGED <<gpsVars, dispVars, pointVars>>

\* the worker thread takes the next request
ExportDone(e) ==
    /\ e_pc[e] = "done"
    /\ e_pc' = [e_pc EXCEPT ![e] = "idle"]
    /\ e_name' = [e_name EXCEPT ![e] = NoName]
    /\ e_ret' = [e_ret EXCEPT ![e] = "none"]
    /\ e_resp' = [e_resp EXCEPT ![e] = NoResponse]
    /\ UNCHANGED <<download_dir, html_file, downloads>>
    /\ UNCHANGED <<gpsVars, dispVars, pointVars>>

NextExport ==
    \/ Main
    \/ StorageChanges
    \/ MapChanges
    \/ \E e \in Exporters : ExportRequest(e)
    \/ \E e \in Exporters : ExportPlatform(e)
    \/ \E e \in Exporters : ExportDir(e)
    \/ \E e \in Exporters : ExportName(e)
    \/ \E e \in Exporters : ExportSource(e)
    \/ \E e \in Exporters : ExportCopy(e)
    \/ \E e \in Exporters : ExportReturn(e)
    \/ \E e \in Exporters : ExportDone(e)

Init == InitGps /\ InitDispatch /\ InitPoints /\ InitExport

\* each specification starts from the initial states that differ in what
\* its actions read: the platform matters to the poller and to the export,
\* the content an earlier run left in the mailbox to the dispatcher
InitNoMailbox == Init /\ mailbox = Absent

InitOnTermux == Init /\ termux

InitPlain == Init /\ termux /\ mailbox = Absent

Next == NextGps

\* the poller and the /api/current_gps handlers
Spec == InitNoMailbox /\ [][Next]_vars

\* the /api/send_lxmf_command handlers
SpecDispatch == InitOnTermux /\ [][NextDispatch]_vars

\* the /api/logged_points handlers and the external logger
SpecPoints == InitPlain /\ [][NextPoints]_vars

\* the /api/export_map handlers, the storage and the map file
SpecExport == InitNoMailbox /\ [][NextExport]_vars

\* the /api/send_lxmf_command handlers under a fair scheduler
SpecDispatchFair == InitOnTermux /\ [][NextDispatchFair]_vars /\ FairHandlers

\* rt requests that leave out one or both ping parameters, and an rs request
\* that carries them
ReqRtNoCount == Body(Num(12), Str("rt"), Missing, Num(7))

ReqRtNoDelay == Body(Num(3), Str("rt"), Num(2), Missing)

ReqRsPings == Body(Num(3), Str("rs"), Num(2), Num(7))

PingRequests == {ReqRtDefaults, ReqRtNoCount, ReqRtNoDelay, ReqRsPings}

DispatchRequestPings(h) ==
    /\ serving
    /\ d_pc[h] = "idle"
    /\ \E q \in PingRequests : req' = [req EXCEPT ![h] = q]
    /\ d_pc' = [d_pc EXCEPT ![h] = "validate"]
    /\ UNCHANGED <<mailbox, message, resp, overlap>>
    /\ UNCHANGED <<gpsVars, fileVars>>

NextPings ==
    \/ Main
    \/ BridgeClear
    \/ \E h \in Handlers : DispatchRequestPings(h)
    \/ \E h \in Handlers : DispatchValidate(h)
    \/ \E h \in Handlers : DispatchOpen(h)
    \/ \E h \in Handlers : DispatchWrite(h)
    \/ \E h \in Handlers : DispatchReturn(h)
    \/ \E h \in Handlers : DispatchDone(h)

\* the /api/send_lxmf_command handlers, requests with and without the ping
\* parameters
SpecPings == InitPlain /\ [][NextPings]_vars

\* one provider outcome of each kind get_current_gps tells apart: an
\* exception caught at line 98, a fall-through to the next attempt, a reading
FewOutcomes ==
    {[kind |-> "timeout", rc |-> 0, stdout |-> [t |-> "empty"]],
     [kind |-> "exit", rc |-> 1, stdout |-> [t |-> "empty"]],
     [kind |-> "exit", rc |-> 0, stdout |-> [t |-> "json", v |-> JDict(ReadingA)]]}

\* lines 65-79
GpsAttemptFew == \E o \in FewOutcomes : Attempt("gps", o)

\* lines 82-96
NetworkAttemptFew == \E o \in FewOutcomes : Attempt("net", o)

NextFair ==
    \/ Main
    \/ PollerCall
    \/ GpsAttemptFew
    \/ NetworkAttemptFew
    \/ PollerAcquire
    \/ PollerWrite
    \/ PollerRaise
    \/ PollerRelease
    \/ PollerSleep
    \/ \E r \in Readers : ReaderRequest(r)
    \/ \E r \in Readers : ReaderAcquire(r)
    \/ \E r \in Readers : ReaderSerialize(r)
    \/ \E r \in Readers : ReaderReturn(r)
    \/ \E r \in Readers : ReaderDone(r)

\* every started thread keeps being scheduled: a step it can take is
\* eventually taken, and a thread blocked in Lock.acquire gets the lock if it
\* is free again and again; requests arrive or not
FairPoller ==
    /\ WF_vars(Main)
    /\ WF_vars(PollerCall)
    /\ WF_vars(GpsAttemptFew)
    /\ WF_vars(NetworkAttemptFew)
    /\ SF_vars(PollerAcquire)
    /\ WF_vars(PollerWrite \/ PollerRaise)
    /\ WF_vars(PollerRelease)
    /\ WF_vars(PollerSleep)

FairReaders ==
    \A r \in Readers :
        /\ SF_vars(ReaderAcquire(r))
        /\ WF_vars(ReaderSerialize(r))
        /\ WF_vars(ReaderReturn(r))
        /\ WF_vars(ReaderDone(r))

\* the poller and the /api/current_gps handlers under a fair scheduler
SpecFair == InitNoMailbox /\ [][NextFair]_vars /\ FairPoller /\ FairReaders

\* provider output that differs in the provider tag: present, absent, null
ProviderOutcomes ==
    {[kind |-> "exit", rc |-> 1, stdout |-> [t |-> "empty"]],
     [kind |-> "exit", rc |-> 0, stdout |-> [t |-> "json", v |-> JDict(ReadingA)]],
     [kind |-> "exit", rc |-> 0, stdout |-> [t |-> "json", v |-> JDict(ReadingMin)]],
     [kind |-> "exit", rc |-> 0,
      stdout |-> [t |-> "json", v |-> JDict(ReadingNullProvider)]]}

\* lines 65-79
GpsAttemptTagged == \E o \in ProviderOutcomes : Attempt("gps", o)

\* lines 82-96
NetworkAttemptTagged == \E o \in ProviderOutcomes : Attempt("net", o)

NextProvider ==
    \/ Main
    \/ PollerCall
    \/ GpsAttemptTagged
    \/ NetworkAttemptTagged
    \/ PollerAcquire
    \/ PollerWrite
    \/ PollerRaise
    \/ PollerRelease
    \/ PollerSleep
    \/ \E r \in Readers : ReaderRequest(r)
    \/ \E r \in Readers : ReaderAcquire(r)
    \/ \E r \in Readers : ReaderSerialize(r)
    \/ \E r \in Readers : ReaderReturn(r)
    \/ \E r \in Readers : ReaderDone(r)

\* the poller fed with the three forms of the provider tag
SpecProvider == InitNoMailbox /\ [][NextProvider]_vars

\* ------------------------------------------------------------ properties
ReadingKeys ==
    {"latitude", "longitude", "accuracy", "speed", "altitude", "bearing", "provider"}

FieldKeys == ReadingKeys \cup {"timestamp"}

\* the most recent write, and the most recent write of a reading
GoodWrites == {w \in history : Truthy(w.data)}

LastWrite == CHOOSE w \in history : \A w2 \in history : w2.tick <= w.tick

LastGood == CHOOSE w \in GoodWrites : \A w2 \in GoodWrites : w2.tick <= w.tick

\* latitude, longitude and accuracy all come from the reading of one write
FromOneWrite(s) ==
    \/ s.latitude = Null /\ s.longitude = Null /\ s.accuracy = Null
    \/ \E w \in GoodWrites :
         /\ s.latitude = w.data.d.latitude
         /\ s.longitude = w.data.d.longitude
         /\ s.accuracy = Get(w.data.d, "accuracy", Num(0))
         /\ s.timestamp = Timestamp(w.tick)

\* C1: under every interleaving of the poller with the /api/current_gps
\* handlers, each snapshot a handler holds or has returned is the initial
\* value or the cache exactly as some completed write left it, and its
\* latitude, longitude and accuracy come from one and the same tick.
C1_NoTornSnapshot ==
    \A r \in Readers :
        snapshot[r] # NoSnapshot =>
            /\ (snapshot[r] = InitialGps \/ \E w \in history : snapshot[r] = w.value)
            /\ FromOneWrite(snapshot[r])

\* a handler has returned the reading of one tick while the cache already
\* holds the reading of a later tick
C1_Witness ==
    \E r \in Readers :
        /\ r_pc[r] = "done"
        /\ snapshot[r].available
        /\ current_gps.available
        /\ snapshot[r].latitude # current_gps.latitude

\* C2 as stated: whenever the cache says available=false, every reading
\* field (latitude ... timestamp) is null.
C2_UnavailableMeansNull ==
    ~current_gps.available => \A k \in FieldKeys : current_gps[k] = Null

\* the fields are those the last write of a reading left, null if there is none
Retained(s) ==
    IF GoodWrites = {}
    THEN \A k \in FieldKeys : s[k] = Null
    ELSE \A k \in FieldKeys : s[k] = LastGood.value[k]

\* C2 amended: after a tick whose adapter call returned unavailable, and
\* until the next tick that writes a reading, the cache and every read of it
\* report available=false while the reading fields stay as the last
\* successful tick wrote them (all null only if no tick has succeeded yet).
C2_UnavailableKeepsFields ==
    (history # {} /\ ~Truthy(LastWrite.data)) =>
        /\ ~current_gps.available
        /\ Retained(current_gps)
        /\ \A r \in Readers :
               r_pc[r] = "serialized" =>
                   ~snapshot[r].available /\ Retained(snapshot[r])

\* a read made after a failed tick that followed a successful one
C2_Witness ==
    \E r \in Readers :
        /\ r_pc[r] = "serialized"
        /\ ~snapshot[r].available
        /\ snapshot[r].latitude = ReadingA.latitude
        /\ last_tick = "unavailable"

\* C3: when the most recent completed tick did not raise, the available
\* flag of the cache, and of a read made then, is the outcome of that tick:
\* true with that tick's coordinates and timestamp if its adapter call
\* returned a reading, false if it returned unavailable (and false before
\* any tick).
C3_FlagFollowsLastTick ==
    /\ last_tick = "none" => current_gps = InitialGps
    /\ last_tick = "unavailable" => ~current_gps.available /\ ~Truthy(LastWrite.data)
    /\ last_tick = "reading" =>
           /\ current_gps.available
           /\ Truthy(LastWrite.data)
           /\ current_gps.latitude = LastWrite.data.d.latitude
           /\ current_gps.longitude = LastWrite.data.d.longitude
           /\ current_gps.timestamp = Timestamp(LastWrite.tick)
    /\ \A r \in Readers :
           (r_pc[r] = "serialized" /\ last_tick # "raised") =>
               snapshot[r].available = (last_tick = "reading")

\* a read that sees a successful tick that followed a failed one
C3_Witness ==
    \E r \in Readers :
        /\ r_pc[r] = "serialized"
        /\ snapshot[r].available
        /\ last_tick = "reading"
        /\ \E w \in history : ~Truthy(w.data)

\* C4: round trip: a read made after the write of a reading that carries
\* all seven fields, and before the next write, returns those seven values
\* unchanged, with available=true.
C4_RoundTrip ==
    \A r \in Readers :
        (/\ r_pc[r] = "serialized"
         /\ history # {}
         /\ Truthy(LastWrite.data)
         /\ \A k \in ReadingKeys : Has(LastWrite.data.d, k)) =>
            /\ snapshot[r].available
            /\ \A k \in ReadingKeys : snapshot[r][k] = LastWrite.data.d[k]

\* a read of the full reading B
C4_Witness ==
    \E r \in Readers :
        /\ r_pc[r] = "serialized"
        /\ snapshot[r].available
        /\ snapshot[r].provider = Str("network")
        /\ snapshot[r].bearing = Num(180)
        /\ snapshot[r].speed = Num(3)

\* the text written by the two requests of the claim
LineRt3 == <<"s", " ", "3", " ", "r", "t", " ", "1", "0", " ", "5">>

LineRs3 == <<"s", " ", "3", " ", "r", "s">>

\* the file's first line, without its newline
RECURSIVE FirstLine(_)
FirstLine(cs) ==
    IF cs = <<>> \/ Head(cs) = "\n" THEN <<>> ELSE <<Head(cs)>> \o FirstLine(Tail(cs))

\* the space-separated tokens of a line
RECURSIVE Tokens(_)
Tokens(cs) ==
    IF cs = <<>> THEN << <<>> >>
    ELSE LET rest == Tokens(Tail(cs)) IN
         IF Head(cs) = " " THEN << <<>> >> \o rest
         ELSE << <<Head(cs)>> \o Head(rest) >> \o Tail(rest)

IsNumber(cs) == cs # <<>> /\ \A i \in 1..Len(cs) : \E d \in 1..10 : DigitChars[d] = cs[i]

\* the integer a string of decimal digits denotes
RECURSIVE ToInt(_)
ToInt(cs) ==
    IF cs = <<>> THEN 0
    ELSE 10 * ToInt(SubSeq(cs, 1, Len(cs) - 1))
           + ((CHOOSE d \in 1..10 : DigitChars[d] = cs[Len(cs)]) - 1)

TokenIs(tok, n) == IsNumber(tok) /\ ToInt(tok) = n

\* line is the protocol line of request q, whose contact index is a number
LineFor(q, line) ==
    LET tk == Tokens(line)
        ci == q.d.contact_index
        pc == Get(q.d, "ping_count", Num(DefaultPingCount))
        pd == Get(q.d, "ping_delay", Num(DefaultPingDelay))
    IN IF q.d.command = Str("rt")
       THEN /\ Len(tk) = 5
            /\ tk[1] = <<"s">>
            /\ TokenIs(tk[2], ci.n)
            /\ tk[3] = <<"r", "t">>
            /\ pc.t = "num" => TokenIs(tk[4], pc.n)
            /\ pd.t = "num" => TokenIs(tk[5], pd.n)
       ELSE /\ Len(tk) = 3
            /\ tk[1] = <<"s">>
            /\ TokenIs(tk[2], ci.n)
            /\ tk[3] = <<"r", "s">>

\* a request with a non-zero numeric contact index and command rt or rs
Accepted(q) ==
    /\ q.kind = "json"
    /\ q.d.contact_index.t = "num"
    /\ q.d.contact_index.n > 0
    /\ q.d.command \in {Str("rt"), Str("rs")}

KeyMissing(q) ==
    q.kind = "json" /\ (~Has(q.d, "contact_index") \/ ~Has(q.d, "command"))

LeftOver == File(<<"s", " ", "9", " ", "r", "s", "\n">>)

\* C6: a request without contact_index or without command is answered
\* success=false with the validation error, and no step of its handler
\* creates, truncates or rewrites the mailbox file.
C6_MissingFieldRejected ==
    [][\A h \in Handlers :
          (KeyMissing(req[h]) /\ d_pc'[h] # d_pc[h]) =>
              /\ mailbox' = mailbox
              /\ d_pc[h] = "validate" =>
                     /\ d_pc'[h] = "done"
                     /\ resp'[h] = Failure("Missing required fields")
      ]_vars

\* such a request has been answered while the file of an earlier command is
\* still there
C6_Witness ==
    \E h \in Handlers :
        /\ req[h] = ReqNoContact
        /\ d_pc[h] = "done"
        /\ ~resp[h].success
        /\ mailbox = LeftOver

\* C7: a request whose contact_index is a non-negative integer, 0 included,
\* and whose command is rt or rs is not rejected as a validation failure.
C7_NonNegativeIndexAccepted ==
    \A h \in Handlers :
        (/\ d_pc[h] = "done"
         /\ req[h].kind = "json"
         /\ req[h].d.contact_index.t = "num"
         /\ req[h].d.contact_index.n >= 0
         /\ req[h].d.command \in {Str("rt"), Str("rs")}) =>
            resp[h].error # "Missing required fields"

\* the provider attempt ended without a valid reading for a reason the
\* claim lists: timeout, non-zero exit, malformed output, invalid coordinates
NoReadingListed(o) ==
    \/ o.kind = "timeout"
    \/ o.kind = "exit" /\ TryProvider(o).k # "return"

\* C8: when get_current_gps returns and its gps attempt gave no valid
\* reading for a listed reason, the network attempt was made, a valid
\* network reading is what is returned, and None is returned only after
\* both attempts.
C8_FallbackAlwaysTried ==
    (p_pc = "acquire" /\ attempts # <<>>) =>
        /\ NoReadingListed(attempts[1]) =>
               /\ Len(attempts) = 2
               /\ TryProvider(attempts[2]).k = "return" =>
                      gps_data = TryProvider(attempts[2]).data
        /\ gps_data = Null => Len(attempts) = 2

\* validity as the claim defines it: both coordinates present (numbers) and
\* at least one of magnitude above epsilon
SpecValid(d) ==
    /\ d.latitude.t = "num"
    /\ d.longitude.t = "num"
    /\ (Abs(d.latitude.n) > Epsilon \/ Abs(d.longitude.n) > Epsilon)

\* C9: get_current_gps never raises to gps_updater: whatever the provider
\* attempts do, the call returns None or a valid reading.
C9_AdapterNeverRaises ==
    /\ adapter_ret # "raised"
    /\ adapter_ret = "returned" =>
           \/ gps_data = Null
           \/ gps_data.t = "dict" /\ SpecValid(gps_data.d)
    /\ (p_pc = "acquire" /\ attempts # <<>>) =>
           (TryProvider(attempts[Len(attempts)]).k = "raise" => gps_data = Null)

\* the network attempt timed out after the gps attempt fell through, and
\* the call returned None
C9_Witness ==
    /\ p_pc = "acquire"
    /\ adapter_ret = "returned"
    /\ Len(attempts) = 2
    /\ attempts[2].kind = "timeout"
    /\ gps_data = Null

IsPayload(o) == o.kind = "exit" /\ o.rc = 0 /\ o.stdout.t = "json" /\ o.stdout.v.t = "dict"

\* C10: a provider payload is taken as the reading exactly when both
\* coordinates are present and at least one has magnitude above epsilon.
C10_ValidExactlyWhenAboveEpsilon ==
    (p_pc = "acquire" /\ attempts # <<>>) =>
        \A i \in 1..Len(attempts) :
            IsPayload(attempts[i]) =>
                ((i = Len(attempts) /\ gps_data = attempts[i].stdout.v)
                    <=> SpecValid(attempts[i].stdout.v.d))

\* C11: under fair scheduling the loop of gps_updater goes on whatever the
\* tick did: an iteration whose adapter call has begun ends in the sleep of
\* line 132, whether it wrote a reading, wrote unavailable or raised, and
\* after that sleep the adapter is called again.
C11_LoopGoesOn ==
    \A k \in 0..(MaxTicks - 1) :
        /\ (p_pc = "gps" /\ ticks = k) ~> (p_pc = "sleep" /\ ticks = k + 1)
        /\ (p_pc = "sleep" /\ ticks = k) ~> (p_pc = "gps" /\ ticks = k)

\* the adapter is being called again after an iteration that raised
C11_Witness ==
    /\ p_pc = "gps"
    /\ adapter_ret = "running"
    /\ last_tick = "raised"
    /\ ticks >= 1

\* available=false and the eight reading fields null
Blank(s) == ~s.available /\ \A k \in FieldKeys : s[k] = Null

\* C12: as long as no tick has written a reading, the cache and every read
\* of it have available=false and all eight reading fields null; when the
\* platform check fails the poller is never started, no tick ever writes,
\* and this holds for the whole run.
C12_BlankUntilFirstReading ==
    /\ GoodWrites = {} =>
           /\ Blank(current_gps)
           /\ \A r \in Readers : snapshot[r] # NoSnapshot => Blank(snapshot[r])
    /\ ~termux =>
           /\ p_pc = "notstarted"
           /\ history = {}
           /\ ticks = 0

\* a read made after a tick that wrote unavailable, no reading written yet
C12_Witness ==
    \E r \in Readers :
        /\ r_pc[r] = "done"
        /\ Blank(snapshot[r])
        /\ last_tick = "unavailable"
        /\ ticks >= 1
        /\ GoodWrites = {}

\* C13: a handler that had the mailbox to itself from its open to its close
\* leaves in it exactly its own line and one newline, whatever earlier
\* dispatches had left there: of a sequence of successful dispatches that
\* do not overlap, the file holds the last one's line until the bridge acts.
C13_LastDispatchWins ==
    [][\A h \in Handlers :
          (d_pc[h] = "write" /\ d_pc'[h] = "sleep" /\ h \notin overlap) =>
              mailbox' = File(message[h] \o <<"\n">>)
      ]_vars

\* two dispatches that did not overlap: the longer line of the first has
\* been replaced by the shorter line of the second
C13_Witness ==
    \E h \in Handlers : \E o \in Handlers \ {h} :
        /\ d_pc[o] = "done"
        /\ resp[o] = Success(LineRt3)
        /\ d_pc[h] = "sleep"
        /\ req[h] = ReqRs3
        /\ overlap = {}
        /\ mailbox = File(LineRs3 \o <<"\n">>)

\* the file is absent, unreadable, truncated or not parseable as JSON
Unusable(f) == f.kind \in {"absent", "unreadable"} \/ f.text.t \in {"empty", "garbage", "cut"}

\* C14: get_logged_points never raises, and a call that finds the file
\* absent, unreadable, truncated or not parseable returns the empty list.
C14_UnusableFileGivesEmpty ==
    [][\A l \in PointReaders :
          (l_pc[l] \in {"check", "open"} /\ l_pc'[l] # l_pc[l]) =>
              /\ l_ret'[l] # "raised"
              /\ (Unusable(json_file) /\ l_pc'[l] # "open") =>
                     /\ l_pc'[l] = "loaded"
                     /\ l_ret'[l] = "returned"
                     /\ points'[l] = EmptyList
      ]_vars

\* a call that met a truncated file has returned the empty list
C14_Witness ==
    \E l \in PointReaders :
        /\ l_pc[l] = "done"
        /\ l_ret[l] = "returned"
        /\ points[l] = EmptyList
        /\ json_file.kind = "file"
        /\ json_file.text.t = "cut"

\* the file holds a complete document whose 'points' is a list
HoldsList(f) ==
    /\ f.kind = "file"
    /\ f.text.t = "json"
    /\ f.text.v.t = "dict"
    /\ f.text.v.d.points.t = "list"

\* C15: a call that reads a file holding a points list returns that list,
\* item for item in the stored order, as the file is at that moment and
\* whatever earlier calls returned.
C15_FreshInStoredOrder ==
    [][\A l \in PointReaders :
          (l_pc[l] = "open" /\ l_pc'[l] # l_pc[l] /\ HoldsList(json_file)) =>
              /\ l_pc'[l] = "loaded"
              /\ points'[l].t = "list"
              /\ points'[l].items = json_file.text.v.d.points.items
      ]_vars

\* one call returned the one point of the file; the logger then stored a
\* second point and a later call returns both, in the stored order
C15_Witness ==
    \E l \in PointReaders : \E o \in PointReaders \ {l} :
        /\ l_pc[o] = "done"
        /\ points[o] = PList(<<PointA>>)
        /\ l_pc[l] = "loaded"
        /\ points[l] = PList(<<PointA, PointB>>)
        /\ json_file = [kind |-> "file", text |-> [t |-> "json", v |-> Doc(PList(<<PointA, PointB>>))]]

\* the body carries a contact index and a command that is neither rt nor rs
UnknownCommand(q) ==
    /\ q.kind = "json"
    /\ Has(q.d, "contact_index")
    /\ Has(q.d, "command")
    /\ q.d.command \notin {Str("rt"), Str("rs")}

\* C16: a request whose contact_index is present and whose command is not
\* one of the accepted ones is answered success=false at the validation
\* step (with 'Unknown command' when both fields are truthy), and no step
\* of its handler creates, truncates or rewrites the mailbox file.
C16_UnknownCommandRejected ==
    [][\A h \in Handlers :
          (UnknownCommand(req[h]) /\ d_pc'[h] # d_pc[h]) =>
              /\ mailbox' = mailbox
              /\ d_pc[h] = "validate" =>
                     /\ d_pc'[h] = "done"
                     /\ ~resp'[h].success
                     /\ (Truthy(req[h].d.contact_index) /\ Truthy(req[h].d.command)) =>
                            resp'[h] = Failure("Unknown command")
      ]_vars

\* the request with command "stop" has been refused while the line of an
\* accepted dispatch is still in the mailbox
C16_Witness ==
    \E h \in Handlers :
        /\ req[h] = ReqStop3
        /\ d_pc[h] = "done"
        /\ resp[h] = Failure("Unknown command")
        /\ mailbox = File(LineRt3 \o <<"\n">>)

\* the test the handler makes at its position fails
CheckFails(e) ==
    \/ e_pc[e] = "platform" /\ ~termux
    \/ e_pc[e] = "dir" /\ ~download_dir
    \/ e_pc[e] = "source" /\ ~html_file
    \/ e_pc[e] = "copy" /\ (~html_file \/ ~download_dir)

\* C17: export_map raises nothing.  A step that finds the platform check
\* failing, the destination directory absent or the map file absent ends
\* the request with success=false and an error string and leaves the
\* destination untouched.  success=true, with the filename, is returned only
\* by the step that follows a completed copy to that filename.
C17_ExportFailsCleanly ==
    [][\A e \in Exporters :
          e_pc'[e] # e_pc[e] =>
              /\ e_ret'[e] # "raised"
              /\ CheckFails(e) =>
                     /\ e_pc'[e] = "done"
                     /\ ~e_resp'[e].success
                     /\ e_resp'[e].error # ""
                     /\ downloads' = downloads
              /\ e_pc'[e] = "copied" => downloads'[e_name[e]] = "complete"
              /\ (e_pc'[e] = "done" /\ e_resp'[e].success) =>
                     /\ e_pc[e] = "copied"
                     /\ e_resp'[e].filename = e_name[e]
                     /\ e_resp'[e].filename \in FileNames
      ]_vars

\* the map was removed after the handler had seen it: the copy failed, the
\* answer is a failure and the destination is as empty as before
C17_Witness ==
    \E e \in Exporters :
        /\ e_pc[e] = "done"
        /\ e_name[e] \in FileNames
        /\ ~e_resp[e].success
        /\ e_resp[e].error = "FileNotFoundError"
        /\ download_dir
        /\ \A n \in FileNames : downloads[n] = "absent"

\* C18: under fair scheduling of the handler threads, and whether or not
\* the bridge ever reads or clears the mailbox, every dispatch request is
\* answered, and a handler that has written its line answers success after
\* the fixed delay.
C18_DispatchResponds ==
    \A h \in Handlers :
        /\ (d_pc[h] = "validate") ~> (d_pc[h] = "done" /\ resp[h] # NoResponse)
        /\ (d_pc[h] = "sleep") ~> (d_pc[h] = "done" /\ resp[h].success)

\* a dispatch has been acknowledged while its line is still in the mailbox,
\* not read by the bridge
C18_Witness ==
    \E h \in Handlers :
        /\ d_pc[h] = "done"
        /\ req[h] = ReqRs3
        /\ resp[h] = Success(LineRs3)
        /\ mailbox = File(LineRs3 \o <<"\n">>)

\* C19: a tick that raised inside the try block of gps_updater counts as an
\* unavailable tick: once it is over, the cache reports available=false.
C19_RaisedTickReportsUnavailable ==
    (last_tick = "raised" /\ p_pc = "sleep") => ~current_gps.available

\* the number of newline characters in a text
Newlines(cs) == Cardinality({i \in 1..Len(cs) : cs[i] = "\n"})

\* C20: whatever the interleaving of concurrent dispatch handlers, the
\* mailbox never holds more than one command line, and a non-empty mailbox
\* that no handler has open holds one complete line and nothing after it.
C20_AtMostOneLine ==
    /\ Newlines(mailbox.content) <= 1
    /\ (mailbox.content # <<>> /\ HasOpen = {}) =>
           mailbox.content[Len(mailbox.content)] = "\n"

\* the file holds a complete JSON document that is not an object with a
\* list under 'points'
InvalidStructure(f) ==
    /\ f.kind = "file"
    /\ f.text.t = "json"
    /\ ~HoldsList(f)

\* C21: get_logged_points always returns a sequence: a call that reads a
\* file whose JSON has an invalid structure (top level not an object,
\* 'points' absent, null or otherwise not a list) returns the empty list.
C21_AlwaysASequence ==
    [][\A l \in PointReaders :
          (l_pc[l] = "open" /\ l_pc'[l] = "loaded") =>
              /\ points'[l].t = "list"
              /\ InvalidStructure(json_file) => points'[l] = EmptyList
      ]_vars

\* C22: a handler whose open or write of the mailbox fails answers
\* success=false with the cause as error string and writes nothing more; it
\* answers success only from the delay that follows its completed write of
\* the whole line, and after a failure it never goes back to open or write.
C22_IoFailureReported ==
    [][\A h \in Handlers :
          d_pc'[h] # d_pc[h] =>
              /\ (d_pc[h] \in {"open", "write"} /\ d_pc'[h] = "done") =>
                     /\ ~resp'[h].success
                     /\ resp'[h].error = "OSError"
                     /\ mailbox' = mailbox
              /\ (d_pc'[h] = "done" /\ resp'[h].success) => d_pc[h] = "sleep"
              /\ (d_pc[h] = "write" /\ d_pc'[h] = "sleep") =>
                     /\ Len(mailbox'.content) > Len(message[h])
                     /\ SubSeq(mailbox'.content, 1, Len(message[h]) + 1)
                            = message[h] \o <<"\n">>
              /\ d_pc[h] = "open" => d_pc'[h] \in {"write", "done"}
              /\ d_pc[h] = "write" => d_pc'[h] \in {"sleep", "done"}
              /\ d_pc[h] = "done" => d_pc'[h] = "idle"
      ]_vars

\* the write failed after the open had truncated the file: the handler has
\* answered the failure and the mailbox is empty
C22_Witness ==
    \E h \in Handlers :
        /\ d_pc[h] = "done"
        /\ req[h] = ReqRtDefaults
        /\ resp[h] = Failure("OSError")
        /\ mailbox = File(<<>>)
        /\ \A o \in Handlers \ {h} : d_pc[o] = "idle"

\* C23: the cache value changes only in the poller's write step, taken
\* while the poller holds the lock; no step of a request handler changes
\* it; and the poller thread is started once, by main, before serving.
C23_OnlyPollerWrites ==
    [][/\ current_gps' # current_gps =>
              /\ p_pc = "write"
              /\ p_pc' = "release"
              /\ gps_lock = PollerId
              /\ r_pc' = r_pc
       /\ \A r \in Readers : r_pc'[r] # r_pc[r] => current_gps' = current_gps
       /\ (p_pc = "notstarted" /\ p_pc' # "notstarted") => (~serving /\ termux)
       /\ p_pc # "notstarted" => p_pc' # "notstarted"
       /\ serving => serving'
      ]_vars

\* a handler has answered the blank value and the poller has since written
\* a reading
C23_Witness ==
    \E r \in Readers :
        /\ r_pc[r] = "done"
        /\ snapshot[r] = InitialGps
        /\ current_gps.available
        /\ p_pc = "sleep"

\* C24: the poller holds gps_lock exactly in the steps that write or flag
\* the cache and leave the with block, never during an adapter call or the
\* sleep; the adapter runs only in the poller; and while the poller is in a
\* provider attempt or asleep, a handler waiting for the lock can take it as
\* soon as no other handler holds it.
C24_NoLockDuringProviderIO ==
    /\ gps_lock = PollerId <=> p_pc \in {"write", "release"}
    /\ adapter_ret = "running" <=> p_pc \in {"gps", "net"}
    /\ \A r \in Readers :
           (/\ p_pc \in {"call", "gps", "net", "sleep"}
            /\ r_pc[r] = "waiting"
            /\ \A o \in Readers : r_pc[o] \notin {"locked", "serialized"}) =>
               ENABLED ReaderAcquire(r)

\* a handler holds the lock and reads while the second provider attempt runs
C24_Witness ==
    \E r \in Readers :
        /\ r_pc[r] = "serialized"
        /\ gps_lock = r
        /\ p_pc = "net"
        /\ adapter_ret = "running"

\* the step handler o is at can be taken
CanStep(o) ==
    /\ d_pc[o] = "validate" => ENABLED DispatchValidate(o)
    /\ d_pc[o] = "open" => ENABLED DispatchOpen(o)
    /\ d_pc[o] = "write" => ENABLED DispatchWrite(o)
    /\ d_pc[o] = "sleep" => ENABLED DispatchReturn(o)

\* C25: no step of a dispatch handler takes, needs or releases gps_lock or
\* moves the poller or a current-position handler, so a dispatch in
\* progress cannot delay them; and while one handler is in its 0.1 s delay
\* every other handler can take its own next step.
C25_DispatchStaysOffTheLock ==
    [][\A h \in Handlers :
          d_pc'[h] # d_pc[h] =>
              /\ gps_lock' = gps_lock
              /\ UNCHANGED <<current_gps, p_pc, r_pc, snapshot>>
              /\ (d_pc[h] = "sleep" \/ d_pc'[h] = "sleep") =>
                     \A o \in Handlers \ {h} : CanStep(o) /\ CanStep(o)'
      ]_vars

\* one handler is in its delay after the write while another has opened
\* the mailbox
C25_Witness ==
    \E h \in Handlers : \E o \in Handlers \ {h} :
        /\ d_pc[h] = "sleep"
        /\ d_pc[o] = "write"
        /\ gps_lock = Free

\* C26: whenever the cache says available=true, latitude and longitude are
\* numbers that pass the validity test (not both within epsilon of zero)
\* and timestamp and provider are not null.
C26_AvailableMeansValidated ==
    current_gps.available =>
        /\ current_gps.latitude.t = "num"
        /\ current_gps.longitude.t = "num"
        /\ (Abs(current_gps.latitude.n) > Epsilon
               \/ Abs(current_gps.longitude.n) > Epsilon)
        /\ current_gps.timestamp # Null
        /\ current_gps.provider # Null

\* the thread inside a locked section, if any
InLockedSection ==
    IF p_pc \in {"write", "release"} THEN PollerId
    ELSE IF \E r \in Readers : r_pc[r] \in {"locked", "serialized"}
         THEN CHOOSE r \in Readers : r_pc[r] \in {"locked", "serialized"}
         ELSE Free

\* C27: gps_lock is held exactly by the thread inside a locked section, so
\* every way out of a section, the raising one included, has released it; it
\* is only ever taken while free, so no thread takes it twice; and under a
\* fair scheduler every /api/current_gps request that waits for the lock
\* gets its response and every poller tick that waits for the lock finishes.
C27_LockAlwaysComesBack ==
    /\ [](gps_lock = InLockedSection)
    /\ [][gps_lock' # gps_lock => (gps_lock = Free \/ gps_lock' = Free)]_vars
    /\ \A r \in Readers : (r_pc[r] = "waiting") ~> (r_pc[r] = "done")
    /\ \A k \in 0..(MaxTicks - 1) :
           (p_pc = "acquire" /\ ticks = k) ~> (p_pc = "sleep" /\ ticks = k + 1)

\* a request holds the lock after a tick whose locked body raised, while
\* another request waits for it
C27_Witness ==
    \E r \in Readers : \E o \in Readers \ {r} :
        /\ r_pc[r] = "locked"
        /\ gps_lock = r
        /\ r_pc[o] = "waiting"
        /\ last_tick = "raised"
        /\ p_pc = "sleep"

LineRtNoCount == <<"s", " ", "1", "2", " ", "r", "t", " ", "1", "0", " ", "7">>

LineRtNoDelay == <<"s", " ", "3", " ", "r", "t", " ", "2", " ", "5">>

\* the line the claim gives for request q
DefaultedLine(q) ==
    CASE q = ReqRtDefaults -> LineRt3
      [] q = ReqRtNoCount -> LineRtNoCount
      [] q = ReqRtNoDelay -> LineRtNoDelay
      [] q = ReqRsPings -> LineRs3

\* C28: an rt request without ping_count gets 10 in its place and one
\* without ping_delay gets 5, so an rt request with only contact index i
\* gives the line `s i rt 10 5`; an rs request gives `s i rs` whatever ping
\* parameters it carries.  The line is the message built at validation, the
\* first line of the mailbox after the write and the message of the response.
C28_PingDefaults ==
    [][\A h \in Handlers :
          (req[h] \in PingRequests /\ d_pc'[h] # d_pc[h]) =>
              /\ d_pc[h] = "validate" =>
                     /\ d_pc'[h] = "open"
                     /\ message'[h] = DefaultedLine(req[h])
                     /\ LET tk == Tokens(message'[h]) IN
                        IF req[h].d.command = Str("rt")
                        THEN /\ Len(tk) = 5
                             /\ ~Has(req[h].d, "ping_count") => TokenIs(tk[4], 10)
                             /\ ~Has(req[h].d, "ping_delay") => TokenIs(tk[5], 5)
                        ELSE Len(tk) = 3
              /\ (d_pc[h] = "write" /\ d_pc'[h] = "sleep") =>
                     FirstLine(mailbox'.content) = DefaultedLine(req[h])
              /\ d_pc[h] = "sleep" => resp'[h] = Success(DefaultedLine(req[h]))
      ]_vars

\* an rt request without ping_delay has been answered with `s 3 rt 2 5`, and
\* an rs request with ping parameters has since written `s 3 rs`
C28_Witness ==
    \E h \in Handlers : \E o \in Handlers \ {h} :
        /\ req[h] = ReqRtNoDelay
        /\ d_pc[h] = "done"
        /\ resp[h] = Success(LineRtNoDelay)
        /\ req[o] = ReqRsPings
        /\ d_pc[o] = "sleep"
        /\ mailbox = File(LineRs3 \o <<"\n">>)

====
